---- MODULE Spec2Model ----
(***************************************************************************)
(* The tool-calling session loop of the voice-controlled manipulator:      *)
(* LLMMode (modes/llm_mode.py) driving LLMAgent.run (agents/agent.py) and  *)
(* SkillExecutor.execute_tool_call (skills/executor.py) over the handlers  *)
(* of RobotTools (tools/robot_tools.py), wired as in main.py.              *)
(***************************************************************************)
EXTENDS Integers, Sequences, FiniteSets, TLC

\* ---------------------------------------------------------------- bounds
\* max_retries is configured in 0..MaxRetries
MaxRetries == 2
\* inference calls (agent.run) made in one session
MaxSteps == 2
\* user turns started in one session
MaxTurns == 2

\* ------------------------------------------------------------ JSON values
IntV(n) == [t |-> "int", v |-> n]
StrV(s) == [t |-> "str", v |-> s]
\* a JSON number with a fraction: whole + tenths / 10, whole >= 0
FloatV(whole, tenths) == [t |-> "float", whole |-> whole, tenths |-> tenths]
EmptyDict == [k \in {} |-> k]

\* ------------------------------------------------------- core/types.py
Ok(data) == [tag |-> "ok", data |-> data]
Err(code, message) == [tag |-> "err", code |-> code, message |-> message]
Pending == [tag |-> "pending"]

NoContent == [fmt |-> "none"]
Text(chars) == [fmt |-> "text", chars |-> chars]

AgentMessage(role, content, tool_calls, tool_call_id) ==
    [role |-> role, content |-> content, tool_calls |-> tool_calls,
     tool_call_id |-> tool_call_id]

ToolCall(id, name, args) == [id |-> id, name |-> name, args |-> args]

\* payloads the handlers return
Obj(cls, data) == [cls |-> cls, data |-> data]
\* Pose, Joints and RobotState define to_dict
HasToDict(p) == p.cls \in {"Pose", "Joints", "RobotState"}
ToDict(p) == Obj("dict", p.data)
\* json.dumps accepts dicts, lists of plain values, scalars and None
JsonSerializable(p) == p.cls \in {"dict", "NoneType", "str", "int"}

\* ------------------------------------------------------ agents/agent.py
\* json.loads(args_str) if args_str else {}; a JSONDecodeError gives {}
DecodeArguments(arguments) ==
    IF arguments.enc = "json" THEN arguments.value ELSE EmptyDict

\* mutant: a call whose arguments do not decode is left out of the list
DecodeToolCallsSkipsBad(raw) ==
    LET good == SelectSeq(raw, LAMBDA tc : tc.arguments.enc = "json") IN
    [i \in 1..Len(good) |->
        ToolCall(good[i].id, good[i].name, DecodeArguments(good[i].arguments))]

DecodeToolCalls(raw) ==
    [i \in 1..Len(raw) |->
        ToolCall(raw[i].id, raw[i].name, DecodeArguments(raw[i].arguments))]

\* tc["id"] finds the key (id 0 stands for a call without one)
HasId(tc) == tc.id # 0

\* the first exception of lines 126-155, or "none": the request fails
\* (transport, timeout, raise_for_status), the body does not decode or is
\* not an object, 'choices' is an empty list, a call has no id
RunRaises(reply) ==
    IF reply.transport # "ok" THEN reply.transport
    ELSE IF reply.body = "undecodable" THEN "Failed to decode JSON."
    ELSE IF reply.body = "json_not_object" THEN "AttributeError"
    ELSE IF reply.body = "json_empty_choices" THEN "IndexError"
    ELSE IF reply.body = "json" /\ \E i \in DOMAIN reply.tool_calls : ~HasId(reply.tool_calls[i])
    THEN "KeyError"
    ELSE "none"

\* mutant: the text of a reply that has tool calls is kept in the message
AgentRunKeepsText(reply) ==
    IF reply.transport = "ok" /\ reply.body = "empty"
    THEN Err("llm_error", "LLM returned an empty response.")
    ELSE IF RunRaises(reply) # "none"
    THEN Err("llm_error", "LLM API call failed: " \o RunRaises(reply))
    ELSE IF reply.body = "json_no_choices"
    THEN Ok(AgentMessage("assistant", NoContent, <<>>, 0))
    ELSE Ok(AgentMessage("assistant", reply.content, DecodeToolCalls(reply.tool_calls), 0))

\* LLMAgent.run on one backend reply: exactly one Result
AgentRun(reply) ==
    IF reply.transport = "ok" /\ reply.body = "empty"
    THEN Err("llm_error", "LLM returned an empty response.")
    ELSE IF RunRaises(reply) # "none"
    THEN Err("llm_error", "LLM API call failed: " \o RunRaises(reply))
    \* data.get("choices", [{}])[0].get("message", {}): no message, no content
    ELSE IF reply.body = "json_no_choices"
    THEN Ok(AgentMessage("assistant", NoContent, <<>>, 0))
    ELSE IF reply.tool_calls # <<>>
    THEN Ok(AgentMessage("assistant", Text(<<>>), DecodeToolCalls(reply.tool_calls), 0))
    ELSE Ok(AgentMessage("assistant", reply.content, <<>>, 0))

\* client.post calls one run makes (line 128): one, outside any loop
PostCalls(reply) == 1

\* ------------------------------------------------- tools/robot_tools.py
\* parameter lists of the handlers: names without and with a default
Signature(required, optional) == [required |-> required, optional |-> optional]

\* Python's int(): an int is itself, a float is truncated toward zero, a
\* string is parsed after stripping whitespace (ValueError unless it is an
\* optional sign and decimal digits), anything else is a TypeError
DigitValue(c) ==
    CASE c = "0" -> 0 [] c = "1" -> 1 [] c = "2" -> 2 [] c = "3" -> 3
      [] c = "4" -> 4 [] c = "5" -> 5 [] c = "6" -> 6 [] c = "7" -> 7
      [] c = "8" -> 8 [] c = "9" -> 9
IsDigit(c) == c \in {"0", "1", "2", "3", "4", "5", "6", "7", "8", "9"}
IsSpace(c) == c \in {" ", "\t", "\n"}
RECURSIVE Decimal(_)
Decimal(chars) ==
    IF chars = <<>> THEN 0
    ELSE 10 * Decimal(SubSeq(chars, 1, Len(chars) - 1)) + DigitValue(chars[Len(chars)])
PyInt(x) ==
    CASE x.t = "int" -> [tag |-> "int", v |-> x.v]
      [] x.t = "float" -> [tag |-> "int", v |-> x.whole]
      [] x.t = "str" ->
            LET body == SelectSeq(x.v, LAMBDA c : ~IsSpace(c))
                signed == body # <<>> /\ Head(body) \in {"+", "-"}
                digits == IF signed THEN Tail(body) ELSE body IN
            IF /\ digits # <<>>
               /\ \A k \in DOMAIN digits : IsDigit(digits[k])
               /\ \A k \in DOMAIN x.v :
                     IsSpace(x.v[k]) => \/ \A j \in 1..k : IsSpace(x.v[j])
                                        \/ \A j \in k..Len(x.v) : IsSpace(x.v[j])
            THEN [tag |-> "int",
                  v |-> IF signed /\ Head(body) = "-"
                        THEN 0 - Decimal(digits) ELSE Decimal(digits)]
            ELSE [tag |-> "ValueError"]
      [] OTHER -> [tag |-> "TypeError"]

\* the angle servo.set_angle is called with (line 115), if the call is reached
ServoCommand(args) ==
    LET n == PyInt(args.angle) IN
    IF n.tag = "int" /\ 0 <= n.v /\ n.v <= 180 THEN <<n.v>> ELSE <<>>

\* RobotTools.set_servo_angle; servo is what servo.set_angle does
set_servo_angle(args, servo) ==
    LET n == PyInt(args.angle) IN
    IF n.tag # "int"
    THEN Err("invalid_angle", "Angle must be a valid integer, but got that.")
    ELSE IF ~(0 <= n.v /\ n.v <= 180)
    THEN Err("invalid_angle", "Angle must be between 0 and 180.")
    ELSE IF servo = "true" THEN Ok(Obj("dict", "status_done"))
    ELSE IF servo = "false" THEN Err("servo_error", "Failed to set servo angle.")
    ELSE [tag |-> "raise", type |-> servo]

\* the driver, kinematics and safety collaborators are those of main.py
get_joint_positions(args) == Ok(Obj("Joints", "zeros"))
get_tcp_pose(args) == Ok(Obj("Pose", "p100"))
\* RobotTools.get_state on what driver.read_joints and kinematics.fk give:
\* an error of either is returned as a new Err with its code and message
GetState(joints_res, pose_res) ==
    IF joints_res.tag # "ok" THEN joints_res
    ELSE IF pose_res.tag # "ok" THEN pose_res
    ELSE Ok(Obj("RobotState", "idle"))

\* isinstance(target, Pose)
IsPose(target) == "cls" \in DOMAIN target /\ target.cls = "Pose"

\* mutant: the motion command is issued whatever the safety check said
MoveP2PUnchecked(target, state_res, check, command_res) ==
    IF state_res.tag # "ok"
    THEN [result |-> state_res, goals |-> <<>>]
    ELSE [result |-> IF check.tag # "ok" THEN check ELSE command_res,
          goals |-> <<[command |-> IF IsPose(target) THEN "command_cartesian_goal"
                                   ELSE "command_joint_goal",
                       target |-> target]>>]

\* RobotTools.move_p2p (lines 39-49) on the outcomes of its collaborators:
\* what it returns (tag "raise": the exception of a collaborator leaves it)
\* and the motion commands it gave to the driver
MoveP2P(target, state_res, check, command_res) ==
    IF state_res.tag # "ok"
    THEN [result |-> state_res, goals |-> <<>>]
    ELSE IF check.tag # "ok"
    THEN [result |-> check, goals |-> <<>>]
    ELSE [result |-> command_res,
          goals |-> <<[command |-> IF IsPose(target) THEN "command_cartesian_goal"
                                   ELSE "command_joint_goal",
                       target |-> target]>>]

\* the collaborators of main.py: DummyRobot, DummyKinematics, ConsoleSafety
DummyJoints == Ok(Obj("Joints", "zeros"))
DummyPose == Ok(Obj("Pose", "p100"))
DummyCheck == Ok(Obj("NoneType", "None"))
DummyMove == Ok(Obj("MoveHandle", "dummy-move-123"))

get_state(args) == GetState(DummyJoints, DummyPose)
move_p2p(args) ==
    MoveP2P(args.target, get_state(EmptyDict), DummyCheck, DummyMove).result
set_gripper(args) == Ok(Obj("NoneType", "None"))
stop(args) == Ok(Obj("NoneType", "None"))
run_fk(args) == Ok(Obj("Pose", "p100"))
run_ik(args) == Ok(Obj("ListOfJoints", "tenths"))

\* ------------------------------ the handler set as inspect reports it
\* str(param.annotation): the module has `from __future__ import
\* annotations`, so an annotation is the text written in the source; a
\* parameter without one has inspect.Parameter.empty (AnnEmpty)
\* IRobotDriver
AnnIRobotDriver == <<"I", "R", "o", "b", "o", "t", "D", "r", "i", "v", "e", "r">>
\* IKinematics
AnnIKinematics == <<"I", "K", "i", "n", "e", "m", "a", "t", "i", "c", "s">>
\* ISafetyRules
AnnISafetyRules == <<"I", "S", "a", "f", "e", "t", "y", "R", "u", "l", "e", "s">>
\* IServo
AnnIServo == <<"I", "S", "e", "r", "v", "o">>
\* str
AnnStr == <<"s", "t", "r">>
\* Union[Pose, Joints]
AnnUnionPoseJoints == <<"U", "n", "i", "o", "n", "[", "P", "o", "s", "e", ",", " ", "J", "o", "i", "n", "t", "s", "]">>
\* float
AnnFloat == <<"f", "l", "o", "a", "t">>
\* Optional[float]
AnnOptionalFloat == <<"O", "p", "t", "i", "o", "n", "a", "l", "[", "f", "l", "o", "a", "t", "]">>
\* <class 'inspect._empty'>
AnnEmpty == <<"<", "c", "l", "a", "s", "s", " ", "'", "i", "n", "s", "p", "e", "c", "t", ".", "_", "e", "m", "p", "t", "y", "'", ">">>
\* Joints
AnnJoints == <<"J", "o", "i", "n", "t", "s">>
\* Pose
AnnPose == <<"P", "o", "s", "e">>
\* Optional[Joints]
AnnOptionalJoints == <<"O", "p", "t", "i", "o", "n", "a", "l", "[", "J", "o", "i", "n", "t", "s", "]">>
\* int
AnnInt == <<"i", "n", "t">>

Param(name, annotation, has_default) ==
    [name |-> name, annotation |-> annotation, has_default |-> has_default]
\* kind: "async" when inspect.iscoroutinefunction holds of the member
Member(name, kind, params) == [name |-> name, kind |-> kind, params |-> params]

\* the methods of RobotTools in the order the class declares them, each with
\* the parameters inspect.signature gives for the bound method
robot_tools ==
    <<
      \* __init__
      Member(<<"_", "_", "i", "n", "i", "t", "_", "_">>,
             "sync", <<Param("driver", AnnIRobotDriver, FALSE), Param("kinematics", AnnIKinematics, FALSE), Param("safety", AnnISafetyRules, FALSE), Param("servo", AnnIServo, FALSE)>>),
      \* get_joint_positions
      Member(<<"g", "e", "t", "_", "j", "o", "i", "n", "t", "_", "p", "o", "s", "i", "t", "i", "o", "n", "s">>,
             "async", <<>>),
      \* get_tcp_pose
      Member(<<"g", "e", "t", "_", "t", "c", "p", "_", "p", "o", "s", "e">>,
             "async", <<Param("frame", AnnStr, TRUE)>>),
      \* move_p2p
      Member(<<"m", "o", "v", "e", "_", "p", "2", "p">>,
             "async", <<Param("target", AnnUnionPoseJoints, FALSE), Param("speed", AnnFloat, FALSE), Param("accel", AnnFloat, FALSE), Param("frame", AnnStr, TRUE)>>),
      \* stop
      Member(<<"s", "t", "o", "p">>,
             "async", <<>>),
      \* set_gripper
      Member(<<"s", "e", "t", "_", "g", "r", "i", "p", "p", "e", "r">>,
             "async", <<Param("state", AnnStr, FALSE), Param("force", AnnOptionalFloat, TRUE)>>),
      \* set_speed_profile
      Member(<<"s", "e", "t", "_", "s", "p", "e", "e", "d", "_", "p", "r", "o", "f", "i", "l", "e">>,
             "sync", <<Param("profile", AnnEmpty, FALSE)>>),
      \* run_fk
      Member(<<"r", "u", "n", "_", "f", "k">>,
             "async", <<Param("joints", AnnJoints, FALSE)>>),
      \* run_ik
      Member(<<"r", "u", "n", "_", "i", "k">>,
             "async", <<Param("pose", AnnPose, FALSE), Param("seed", AnnOptionalJoints, TRUE)>>),
      \* get_state
      Member(<<"g", "e", "t", "_", "s", "t", "a", "t", "e">>,
             "async", <<>>),
      \* heartbeat
      Member(<<"h", "e", "a", "r", "t", "b", "e", "a", "t">>,
             "sync", <<>>),
      \* get_limits
      Member(<<"g", "e", "t", "_", "l", "i", "m", "i", "t", "s">>,
             "sync", <<>>),
      \* shutdown
      Member(<<"s", "h", "u", "t", "d", "o", "w", "n">>,
             "async", <<Param("reason", AnnStr, TRUE)>>),
      \* set_servo_angle
      Member(<<"s", "e", "t", "_", "s", "e", "r", "v", "o", "_", "a", "n", "g", "l", "e">>,
             "async", <<Param("angle", AnnInt, FALSE)>>),
      \* run_in_executor
      Member(<<"r", "u", "n", "_", "i", "n", "_", "e", "x", "e", "c", "u", "t", "o", "r">>,
             "async", <<Param("func", AnnEmpty, FALSE), Param("args", AnnEmpty, FALSE)>>) >>

\* code points order the characters of the member names: digits, "_", letters
CodeOrder ==
    <<"0", "1", "2", "3", "4", "5", "6", "7", "8", "9", "_",
      "a", "b", "c", "d", "e", "f", "g", "h", "i", "j", "k", "l", "m",
      "n", "o", "p", "q", "r", "s", "t", "u", "v", "w", "x", "y", "z">>
Ord(c) == CHOOSE i \in DOMAIN CodeOrder : CodeOrder[i] = c

\* a < b as Python compares str
RECURSIVE StrLess(_, _)
StrLess(a, b) ==
    IF b = <<>> THEN FALSE
    ELSE IF a = <<>> THEN TRUE
    ELSE IF Head(a) = Head(b) THEN StrLess(Tail(a), Tail(b))
    ELSE Ord(Head(a)) < Ord(Head(b))

\* the characters as one str
RECURSIVE Join(_)
Join(chars) == IF chars = <<>> THEN "" ELSE Head(chars) \o Join(Tail(chars))

\* needle in hay
Contains(hay, needle) ==
    \E i \in 1..(Len(hay) - Len(needle) + 1) :
        SubSeq(hay, i, i + Len(needle) - 1) = needle

StartsWith(chars, prefix) ==
    Len(chars) >= Len(prefix) /\ SubSeq(chars, 1, Len(prefix)) = prefix

\* results.sort(key=lambda pair: pair[0]) of inspect.getmembers
RECURSIVE SortedByName(_)
SortedByName(members) ==
    IF members = <<>> THEN <<>>
    ELSE LET least == CHOOSE i \in DOMAIN members :
                        \A j \in DOMAIN members :
                            j # i => StrLess(members[i].name, members[j].name)
             rest == [k \in 1..(Len(members) - 1) |->
                        IF k < least THEN members[k] ELSE members[k + 1]]
         IN <<members[least]>> \o SortedByName(rest)

\* inspect.getmembers(object, predicate): sorted by name, then filtered
getmembers(object, kind) ==
    SelectSeq(SortedByName(object), LAMBDA m : m.kind = kind)

\* lines 62-69 of _get_tool_definitions
ParamType(annotation_str) ==
    IF annotation_str = AnnEmpty THEN "string"
    ELSE IF Contains(annotation_str, <<"i", "n", "t">>)
            \/ Contains(annotation_str, <<"f", "l", "o", "a", "t">>)
    THEN "number"
    ELSE IF Contains(annotation_str, <<"b", "o", "o", "l">>)
    THEN "boolean"
    ELSE "string"

\* lines 71-76: one property per parameter, in the order of the signature;
\* required lists the parameters whose default is inspect.Parameter.empty
ToolDefinition(m) ==
    [name |-> Join(m.name),
     properties |-> [k \in DOMAIN m.params |->
                        [name |-> m.params[k].name,
                         type |-> ParamType(m.params[k].annotation)]],
     required |-> LET noDefault == SelectSeq(m.params, LAMBDA p : ~p.has_default)
                  IN [k \in DOMAIN noDefault |-> noDefault[k].name]]

\* LLMAgent._get_tool_definitions over self.robot_tools: a list built from
\* empty (line 37) with one entry per exposed handler; the description of
\* an entry (the docstring) is left out
_get_tool_definitions(tools_obj) ==
    LET exposed == SelectSeq(getmembers(tools_obj, "async"),
                             LAMBDA m : ~StartsWith(m.name, <<"_">>))
    IN [i \in DOMAIN exposed |-> ToolDefinition(exposed[i])]

\* the catalog of the handler set main.py builds
Catalog == _get_tool_definitions(robot_tools)

\* mutant: the catalog is appended to the one of the request before
PayloadToolsExtended(sent_before) == sent_before \o Catalog
\* "tools" of the payload (line 120): computed anew for every request,
\* whatever the request before carried
PayloadTools(sent_before) == Catalog

\* --------------------------------------------------- skills/executor.py
\* SkillExecutor._build_skill_map: key -> handler and its parameter list
skill_map ==
    [get_tcp_pose |-> Signature({}, {"frame"}),
     get_joint_positions |-> Signature({}, {}),
     get_state |-> Signature({}, {}),
     move_p2p_pose |-> Signature({"target", "speed", "accel"}, {"frame"}),
     move_p2p_joints |-> Signature({"target", "speed", "accel"}, {"frame"}),
     set_gripper |-> Signature({"state"}, {"force"}),
     stop |-> Signature({}, {}),
     run_fk |-> Signature({"joints"}, {}),
     run_ik |-> Signature({"pose"}, {"seed"}),
     set_servo_angle |-> Signature({"angle"}, {})]

\* skill_func(**args) binds: every parameter without default is given and
\* no unknown keyword is passed (otherwise Python raises TypeError)
ArgsFit(name, args) ==
    /\ skill_map[name].required \subseteq DOMAIN args
    /\ DOMAIN args \subseteq skill_map[name].required \cup skill_map[name].optional

CallHandler(name, args, servo) ==
    CASE name = "get_tcp_pose" -> get_tcp_pose(args)
      [] name = "get_joint_positions" -> get_joint_positions(args)
      [] name = "get_state" -> get_state(args)
      [] name \in {"move_p2p_pose", "move_p2p_joints"} -> move_p2p(args)
      [] name = "set_gripper" -> set_gripper(args)
      [] name = "stop" -> stop(args)
      [] name = "run_fk" -> run_fk(args)
      [] name = "run_ik" -> run_ik(args)
      [] name = "set_servo_angle" -> set_servo_angle(args, servo)

\* the handler body runs only for a known name whose arguments bind
HandlerRuns(tc) == tc.name \in DOMAIN skill_map /\ ArgsFit(tc.name, tc.args)

\* SkillExecutor.execute_tool_call: always a Result, never an exception
execute_tool_call(tc, servo) ==
    IF tc.name \notin DOMAIN skill_map
    THEN Err("tool_not_found", "Unknown tool: '" \o tc.name \o "'")
    ELSE IF ~ArgsFit(tc.name, tc.args)
    THEN Err("invalid_params", "Invalid parameters for tool '" \o tc.name \o "'")
    ELSE LET r == CallHandler(tc.name, tc.args, servo) IN
         IF r.tag = "raise" /\ r.type = "TypeError"
         THEN Err("invalid_params", "Invalid parameters for tool '" \o tc.name \o "'")
         ELSE IF r.tag = "raise"
         THEN Err("execution_failed", "An unexpected error occurred during tool execution")
         ELSE r

\* ----------------------------------------------------- modes/llm_mode.py
\* a character is a one-character string; a Cyrillic letter is written by
\* its code point ("U+0416")
Latin ==
    {"a", "b", "c", "d", "e", "f", "g", "h", "i", "j", "k", "l", "m", "n",
     "o", "p", "q", "r", "s", "t", "u", "v", "w", "x", "y", "z", "A", "B",
     "C", "D", "E", "F", "G", "H", "I", "J", "K", "L", "M", "N", "O", "P",
     "Q", "R", "S", "T", "U", "V", "W", "X", "Y", "Z"}
Digits ==
    {"0", "1", "2", "3", "4", "5", "6", "7", "8", "9"}
\* the range a-ya, A-YA of the regular expression: U+0410 .. U+044F
Cyrillic ==
    {"U+0410", "U+0411", "U+0412", "U+0413", "U+0414", "U+0415", "U+0416",
     "U+0417", "U+0418", "U+0419", "U+041A", "U+041B", "U+041C", "U+041D",
     "U+041E", "U+041F", "U+0420", "U+0421", "U+0422", "U+0423", "U+0424",
     "U+0425", "U+0426", "U+0427", "U+0428", "U+0429", "U+042A", "U+042B",
     "U+042C", "U+042D", "U+042E", "U+042F", "U+0430", "U+0431", "U+0432",
     "U+0433", "U+0434", "U+0435", "U+0436", "U+0437", "U+0438", "U+0439",
     "U+043A", "U+043B", "U+043C", "U+043D", "U+043E", "U+043F", "U+0440",
     "U+0441", "U+0442", "U+0443", "U+0444", "U+0445", "U+0446", "U+0447",
     "U+0448", "U+0449", "U+044A", "U+044B", "U+044C", "U+044D", "U+044E",
     "U+044F"}
Whitespace == {" ", "\t", "\n"}
Punctuation == {".", ",", "!", "?", "-"}
Kept(c) == c \in Latin \cup Cyrillic \cup Digits \cup Whitespace \cup Punctuation

RECURSIVE LStrip(_)
LStrip(chars) ==
    IF chars # <<>> /\ Head(chars) \in Whitespace THEN LStrip(Tail(chars)) ELSE chars
RECURSIVE RStrip(_)
RStrip(chars) ==
    IF chars # <<>> /\ chars[Len(chars)] \in Whitespace
    THEN RStrip(SubSeq(chars, 1, Len(chars) - 1))
    ELSE chars

\* LLMMode._clean_text_for_tts: re.sub of every other character, then strip
_clean_text_for_tts(chars) == LStrip(RStrip(SelectSeq(chars, Kept)))

\* truthiness of AgentMessage.content (None and "" are falsy)
HasContent(m) == m.content.fmt = "text" /\ m.content.chars # <<>>

\* what voice_out.speak is given
Spoken(chars) == [fmt |-> "text", chars |-> chars]
Notice(which, detail) == [fmt |-> which, detail |-> detail]

\* the notice of line 59 before the error message
AgentErrorPrefix ==
    <<"U+041E", "U+0448", "U+0438", "U+0431", "U+043A", "U+0430", " ",
      "U+0430", "U+0433", "U+0435", "U+043D", "U+0442", "U+0430", ":", " ">>

\* the notice of line 75
NoResponsePhrase ==
    <<"U+0410", "U+0433", "U+0435", "U+043D", "U+0442", " ", "U+043D",
      "U+0435", " ", "U+0432", "U+0435", "U+0440", "U+043D", "U+0443",
      "U+043B", " ", "U+043D", "U+0438", " ", "U+043E", "U+0442", "U+0432",
      "U+0435", "U+0442", "U+0430", ",", " ", "U+043D", "U+0438", " ",
      "U+043A", "U+043E", "U+043C", "U+0430", "U+043D", "U+0434", "U+044B",
      ".", " ", "U+0417", "U+0430", "U+0432", "U+0435", "U+0440", "U+0448",
      "U+0430", "U+044E", " ", "U+0437", "U+0430", "U+0434", "U+0430",
      "U+0447", "U+0443", ".">>

\* the default reason of line 83
ShutdownDefaultPhrase ==
    <<"U+0417", "U+0430", "U+0432", "U+0435", "U+0440", "U+0448", "U+0430",
      "U+044E", " ", "U+0440", "U+0430", "U+0431", "U+043E", "U+0442",
      "U+0443", " ", "U+043F", "U+043E", " ", "U+043A", "U+043E", "U+043C",
      "U+0430", "U+043D", "U+0434", "U+0435", ".">>

\* the notice of line 117
RetriesExhaustedPhrase ==
    <<"U+041D", "U+0435", " ", "U+0443", "U+0434", "U+0430", "U+043B",
      "U+043E", "U+0441", "U+044C", " ", "U+0432", "U+044B", "U+043F",
      "U+043E", "U+043B", "U+043D", "U+0438", "U+0442", "U+044C", " ",
      "U+043A", "U+043E", "U+043C", "U+0430", "U+043D", "U+0434", "U+0443",
      " ", "U+043F", "U+043E", "U+0441", "U+043B", "U+0435", " ", "U+043D",
      "U+0435", "U+0441", "U+043A", "U+043E", "U+043B", "U+044C", "U+043A",
      "U+0438", "U+0445", " ", "U+043F", "U+043E", "U+043F", "U+044B",
      "U+0442", "U+043E", "U+043A", ".">>

\* the notice of line 145
SystemErrorPhrase ==
    <<"U+041F", "U+0440", "U+043E", "U+0438", "U+0437", "U+043E", "U+0448",
      "U+043B", "U+0430", " ", "U+0441", "U+0438", "U+0441", "U+0442",
      "U+0435", "U+043C", "U+043D", "U+0430", "U+044F", " ", "U+043E",
      "U+0448", "U+0438", "U+0431", "U+043A", "U+0430", ".">>

\* the characters voice_out.speak is given (of the agent-error notice: those
\* before the error message)
SpeechChars(e) ==
    CASE e.fmt = "text" -> e.chars
      [] e.fmt = "agent_error" -> AgentErrorPrefix
      [] e.fmt = "no_response" -> NoResponsePhrase
      [] e.fmt = "shutdown_default" -> ShutdownDefaultPhrase
      [] e.fmt = "retries_exhausted" -> RetriesExhaustedPhrase
      [] e.fmt = "system_error" -> SystemErrorPhrase

\* tc.args.get("reason", <default phrase>)
ShutdownReason(tc) ==
    IF "reason" \in DOMAIN tc.args
    THEN Spoken(tc.args.reason.v)
    ELSE Notice("shutdown_default", "")

\* mutant: only the first call of the batch is looked at
HasShutdownFirstOnly(calls) == calls[1].name = "shutdown"

HasShutdown(calls) == \E i \in 1..Len(calls) : calls[i].name = "shutdown"
\* the first call named shutdown, as the for loop finds it
FirstShutdown(calls) ==
    calls[CHOOSE i \in 1..Len(calls) :
            /\ calls[i].name = "shutdown"
            /\ \A j \in 1..(i - 1) : calls[j].name # "shutdown"]

\* the content of the tool message of one result (lines 95-109); json.dumps
\* raises TypeError for a payload it cannot serialize
CanRender(result) ==
    result.tag = "ok" => (HasToDict(result.data) \/ JsonSerializable(result.data))
Render(result) ==
    IF result.tag = "ok"
    THEN IF HasToDict(result.data)
         THEN [fmt |-> "json", value |-> ToDict(result.data)]
         ELSE [fmt |-> "json", value |-> result.data]
    ELSE [fmt |-> "error", message |-> result.message]

ToolMessage(tc, result) == AgentMessage("tool", Render(result), <<>>, tc.id)

\* ------------------------------------------------- the backend's replies
Json(d) == [enc |-> "json", value |-> d]
RawCall(name, arguments) == [name |-> name, arguments |-> arguments]

Bye == <<"B", "y", "e", ":", ")">>
Plain == <<"O", "k", ".">>
Marked == <<" ", "*", "O", "k", "*", "\n">>

GetJoints == RawCall("get_joint_positions", Json(EmptyDict))
ServoGood == RawCall("set_servo_angle", Json([angle |-> IntV(90)]))
ServoBad == RawCall("set_servo_angle", Json([angle |-> IntV(999)]))
ServoNoArgs == RawCall("set_servo_angle", [enc |-> "malformed"])
ServoFloat == RawCall("set_servo_angle", Json([angle |-> FloatV(90, 5)]))
ServoWord == RawCall("set_servo_angle", Json([angle |-> StrV(<<"u", "p">>)]))
RunIk == RawCall("run_ik", Json([pose |-> StrV(<<"p">>)]))
MoveJoints ==
    RawCall("move_p2p_joints",
            Json([target |-> StrV(<<"j">>), speed |-> IntV(1), accel |-> IntV(1)]))
Fly == RawCall("fly", [enc |-> "empty"])
ShutdownWith == RawCall("shutdown", Json([reason |-> StrV(Bye)]))
ShutdownBare == RawCall("shutdown", Json(EmptyDict))

Batches ==
    {<<GetJoints>>, <<ServoGood>>, <<ServoBad>>, <<ServoNoArgs>>, <<RunIk>>,
     <<Fly>>, <<ShutdownWith>>, <<ShutdownBare>>, <<MoveJoints>>,
     <<ServoFloat>>, <<ServoWord>>,
     <<GetJoints, ServoBad>>, <<ServoBad, ServoGood>>, <<GetJoints, RunIk>>,
     <<ServoBad, RunIk>>,
     <<GetJoints, ShutdownWith>>, <<ShutdownBare, ServoGood>>}

Reply(transport, body, content, tool_calls) ==
    [transport |-> transport, body |-> body, content |-> content,
     tool_calls |-> tool_calls]

Replies ==
    {Reply("fail", "none", NoContent, <<>>),
     Reply("ok", "empty", NoContent, <<>>),
     Reply("ok", "undecodable", NoContent, <<>>)}
    \cup {Reply("ok", "json", c, <<>>) :
            c \in {NoContent, Text(<<>>), Text(Plain), Text(Marked)}}
    \cup {Reply("ok", "json", NoContent, b) : b \in Batches}
    \cup {Reply("ok", "json", Text(Plain), <<GetJoints>>)}

\* what servo.set_angle does with an angle in range: returns True or raises
\* (an exception of the serial port, or a TypeError)
ServoOutcomes == {"true", "Exception", "TypeError"}

Utterances == {<<>>, <<"g", "o">>}

\* -------------------------------------------------------- modes/base.py
\* the modes of the repository by the name main.py would register them
\* under: LLMMode has coroutine methods, the methods of ManualMode
\* (modes/manual.py) are plain functions, whose result cannot be awaited
Awaitable(name) == name = "llm"

\* ModeManager.__init__; calls is what the modes were asked to do, in order,
\* raised the exception of the last switch, asked its argument, switches
\* the number of switch calls
ModeManager ==
    [modes |-> {}, current |-> "None", calls |-> <<>>, raised |-> "none",
     asked |-> "None", switches |-> 0]

\* ModeManager.register
register(mm, name) == [mm EXCEPT !.modes = mm.modes \cup {name}]

\* ModeManager.switch: exit of the current mode, lookup, enter
switch(mm, name) ==
    LET exited == IF mm.current # "None"
                  THEN Append(mm.calls, <<"exit", mm.current>>)
                  ELSE mm.calls
        called == [mm EXCEPT !.asked = name, !.switches = mm.switches + 1,
                             !.calls = exited]
    IN IF mm.current # "None" /\ ~Awaitable(mm.current)
       THEN [called EXCEPT !.raised = "TypeError"]
       ELSE IF name \notin mm.modes
       THEN [called EXCEPT !.current = "None", !.raised = "ValueError"]
       ELSE [called EXCEPT !.calls = Append(exited, <<"enter", name>>),
                           !.current = name,
                           !.raised = IF Awaitable(name) THEN "none" ELSE "TypeError"]

\* no move_p2p call was made
NoMotion == [goals |-> <<>>, moves |-> 0, call |-> [made |-> FALSE]]
\* the record after one more call of move_p2p
Moved(m, target, state_res, check, command_res) ==
    LET r == MoveP2P(target, state_res, check, command_res) IN
    [goals |-> m.goals \o r.goals,
     moves |-> m.moves + 1,
     call |-> [made |-> TRUE, target |-> target, state_res |-> state_res,
               check |-> check, result |-> r.result]]

\* ------------------------------------------------------------------ state
VARIABLES
    max_retries,    \* LLMMode.max_retries
    is_running,     \* LLMMode._is_running
    history,        \* LLMMode.history
    pc,             \* where run_interactive_loop / _run_agent_loop stands
    retries_left,   \* local of _run_agent_loop
    agent_response_res, \* local of _run_agent_loop: what agent.run returned
    tool_results,   \* results of the gathered tasks, by index
    done_order,     \* indices of the tasks being gathered, in completion order
    spoken,         \* voice_out.speak calls since the turn began
    executed,       \* ids given to execute_tool_call since the turn began
    ran,            \* ids whose handler body ran since the turn began
    stepsTaken,     \* agent.run calls since the turn began
    turnEnd,        \* how the last call of _run_agent_loop ended
    terminated,     \* the shutdown call was observed
    nsteps,         \* agent.run calls of the session
    nturns,         \* turns of the session
    next_id,        \* the next call id the backend hands out
    interrupted,    \* stop_loop was called while a batch of the turn was gathered
    servo_angles,   \* arguments of servo.set_angle since the turn began
    tools_sent,     \* "tools" of the payload of the last backend request
    requests,       \* client.post calls of the session
    last_reply,     \* what the backend answered to the last request
    listened,       \* what listen_once returned last: "never", "empty", "text"
    mode_manager,   \* the ModeManager of main.py and the calls its modes got
    motion          \* move_p2p calls since the turn began: the motion commands
                    \* the driver got, the number of calls, the last call

vars == <<max_retries, is_running, history, pc, retries_left, agent_response_res,
          tool_results, done_order, spoken, executed, ran, stepsTaken,
          turnEnd, terminated, nsteps, nturns, next_id, interrupted,
          servo_angles, tools_sent, requests, last_reply, listened,
          mode_manager, motion>>

NoMessage == AgentMessage("none", NoContent, <<>>, 0)
\* no request was made yet
NoReply == Reply("none", "none", NoContent, <<>>)

\* agent_message = agent_response_res.data (line 64)
agent_message ==
    IF agent_response_res.tag = "ok" THEN agent_response_res.data ELSE NoMessage

\* LLMMode.__init__ followed by enter()
Init ==
    /\ max_retries \in 0..MaxRetries
    /\ is_running = TRUE
    /\ history = <<>>
    /\ pc = "top"
    /\ retries_left = 0
    /\ agent_response_res = Pending
    /\ tool_results = <<>>
    /\ done_order = <<>>
    /\ spoken = <<>>
    /\ executed = {}
    /\ ran = {}
    /\ stepsTaken = 0
    /\ turnEnd = "none"
    /\ terminated = FALSE
    /\ nsteps = 0
    /\ nturns = 0
    /\ next_id = 1
    /\ interrupted = FALSE
    /\ servo_angles = <<>>
    /\ tools_sent = <<>>
    /\ requests = 0
    /\ last_reply = NoReply
    /\ listened = "never"
    /\ mode_manager = switch(register(ModeManager, "llm"), "llm")
    /\ motion = NoMotion

\* ---------------------------------------------- run_interactive_loop
InTurn == pc \in {"loop", "gather"}

\* while self._is_running: (true) -> await input, listen_once
EnterIteration ==
    /\ pc = "top"
    /\ is_running
    /\ pc' = "input"
    /\ UNCHANGED <<motion, mode_manager, listened, tools_sent, requests, last_reply,
                   max_retries, interrupted, servo_angles,
                   is_running, history, retries_left, agent_response_res,
                   tool_results, done_order, spoken, executed, ran, stepsTaken,
                   turnEnd, terminated, nsteps, nturns, next_id>>

\* while self._is_running: (false) -> the loop is left
ExitLoop ==
    /\ pc = "top"
    /\ ~is_running
    /\ pc' = "exited"
    /\ UNCHANGED <<motion, mode_manager, listened, tools_sent, requests, last_reply,
                   max_retries, interrupted, servo_angles,
                   is_running, history, retries_left, agent_response_res,
                   tool_results, done_order, spoken, executed, ran, stepsTaken,
                   turnEnd, terminated, nsteps, nturns, next_id>>

\* mutant: an empty utterance is answered with a spoken notice
ListenEmptySpeaks ==
    /\ pc = "input"
    /\ <<>> \in Utterances
    /\ pc' = "top"
    /\ listened' = "empty"
    /\ spoken' = Append(spoken, Notice("no_response", ""))
    /\ UNCHANGED <<motion, mode_manager, tools_sent, requests, last_reply,
                   max_retries, interrupted, servo_angles,
                   is_running, history, retries_left, agent_response_res,
                   tool_results, done_order, executed, ran, stepsTaken,
                   turnEnd, terminated, nsteps, nturns, next_id>>

\* listen_once returned ""; continue
ListenEmpty ==
    /\ pc = "input"
    /\ <<>> \in Utterances
    /\ pc' = "top"
    /\ listened' = "empty"
    /\ UNCHANGED <<motion, mode_manager, tools_sent, requests, last_reply,
                   max_retries, interrupted, servo_angles,
                   is_running, history, retries_left, agent_response_res,
                   tool_results, done_order, spoken, executed, ran, stepsTaken,
                   turnEnd, terminated, nsteps, nturns, next_id>>

\* mutant: the budget left by the turn before is carried into the next turn
StartTurnKeepsBudget(text) ==
    /\ pc = "input"
    /\ text # <<>>
    /\ nturns < MaxTurns
    /\ history' = Append(history, AgentMessage("user", Text(text), <<>>, 0))
    /\ retries_left' = IF nturns = 0 THEN max_retries ELSE retries_left
    /\ pc' = "loop"
    /\ agent_response_res' = Pending
    /\ tool_results' = <<>>
    /\ done_order' = <<>>
    /\ spoken' = <<>>
    /\ executed' = {}
    /\ ran' = {}
    /\ stepsTaken' = 0
    /\ turnEnd' = "running"
    /\ nturns' = nturns + 1
    /\ interrupted' = FALSE
    /\ servo_angles' = <<>>
    /\ motion' = NoMotion
    /\ listened' = "text"
    /\ UNCHANGED <<mode_manager, tools_sent, requests, last_reply,
                   max_retries, is_running, terminated, nsteps, next_id>>

\* listen_once returned text: _run_agent_loop(text) starts (lines 52-53)
StartTurn(text) ==
    /\ pc = "input"
    /\ text # <<>>
    /\ nturns < MaxTurns
    /\ history' = Append(history, AgentMessage("user", Text(text), <<>>, 0))
    /\ retries_left' = max_retries
    /\ pc' = "loop"
    /\ agent_response_res' = Pending
    /\ tool_results' = <<>>
    /\ done_order' = <<>>
    /\ spoken' = <<>>
    /\ executed' = {}
    /\ ran' = {}
    /\ stepsTaken' = 0
    /\ turnEnd' = "running"
    /\ nturns' = nturns + 1
    /\ interrupted' = FALSE
    /\ servo_angles' = <<>>
    /\ motion' = NoMotion
    /\ listened' = "text"
    /\ UNCHANGED <<mode_manager, tools_sent, requests, last_reply,
                   max_retries, is_running, terminated, nsteps, next_id>>

\* LLMMode.stop_loop
stop_loop(running) == FALSE

\* the signal handler of main.py calls stop_loop; the event loop runs it
\* while the session is suspended at an await
StopLoop ==
    /\ pc # "exited"
    /\ is_running
    /\ is_running' = stop_loop(is_running)
    /\ interrupted' = (pc = "gather")
    /\ UNCHANGED <<motion, mode_manager, listened, tools_sent, requests, last_reply,
                   max_retries, servo_angles, history, pc, retries_left,
                   agent_response_res, tool_results, done_order, spoken,
                   executed, ran, stepsTaken, turnEnd, terminated, nsteps,
                   nturns, next_id>>

\* --------------------------------------------------- _run_agent_loop
\* while retries_left > 0: (false) -> lines 121-123, the call returns
LoopExit ==
    /\ pc = "loop"
    /\ ~(retries_left > 0)
    /\ pc' = "top"
    /\ turnEnd' = "exhausted"
    /\ UNCHANGED <<motion, mode_manager, listened, tools_sent, requests, last_reply,
                   max_retries, interrupted, servo_angles,
                   is_running, history, retries_left, agent_response_res,
                   tool_results, done_order, spoken, executed, ran, stepsTaken,
                   terminated, nsteps, nturns, next_id>>

\* the backend numbers the calls of a reply
WithIds(reply, first) ==
    [reply EXCEPT !.tool_calls =
        [i \in 1..Len(reply.tool_calls) |->
            [id |-> first + i - 1, name |-> reply.tool_calls[i].name,
             arguments |-> reply.tool_calls[i].arguments]]]

\* await self.agent.run(self.history) is reached (line 57)
CanStep == pc = "loop" /\ retries_left > 0 /\ nsteps < MaxSteps

Stepped(reply) ==
    /\ stepsTaken' = stepsTaken + 1
    /\ nsteps' = nsteps + 1
    /\ next_id' = next_id + Len(reply.tool_calls)
    /\ tools_sent' = PayloadTools(tools_sent)
    /\ requests' = requests + PostCalls(reply)
    /\ last_reply' = WithIds(reply, next_id)

\* history.clear() of line 61
HistoryOnAgentError(h) == <<>>

\* mutant: the error is spoken and the loop goes on to another attempt
AgentErrorContinues(reply) ==
    LET res == AgentRun(WithIds(reply, next_id)) IN
    /\ CanStep
    /\ res.tag = "err"
    /\ Stepped(reply)
    /\ spoken' = Append(spoken, Notice("agent_error", res.message))
    /\ history' = history
    /\ retries_left' = retries_left - 1
    /\ pc' = "loop"
    /\ agent_response_res' = res
    /\ UNCHANGED <<motion, mode_manager, listened, max_retries, interrupted, servo_angles,
                   is_running, tool_results, done_order, executed,
                   ran, turnEnd, terminated, nturns>>

\* lines 58-62: the agent returned an error
AgentError(reply) ==
    LET res == AgentRun(WithIds(reply, next_id)) IN
    /\ CanStep
    /\ res.tag = "err"
    /\ Stepped(reply)
    /\ spoken' = Append(spoken, Notice("agent_error", res.message))
    /\ history' = HistoryOnAgentError(history)
    /\ pc' = "top"
    /\ agent_response_res' = res
    /\ turnEnd' = "agent_error"
    /\ UNCHANGED <<motion, mode_manager, listened, max_retries, interrupted, servo_angles,
                   is_running, retries_left, tool_results,
                   done_order, executed, ran, terminated, nturns>>

\* lines 64-71: the agent gave a final answer
FinalAnswer(reply) ==
    LET res == AgentRun(WithIds(reply, next_id)) IN
    /\ CanStep
    /\ res.tag = "ok"
    /\ HasContent(res.data)
    /\ Stepped(reply)
    /\ agent_response_res' = res
    /\ history' = Append(history, res.data)
    /\ spoken' = Append(spoken, Spoken(_clean_text_for_tts(res.data.content.chars)))
    /\ pc' = "top"
    /\ turnEnd' = "final_answer"
    /\ UNCHANGED <<motion, mode_manager, listened, max_retries, interrupted, servo_angles,
                   is_running, retries_left, tool_results,
                   done_order, executed, ran, terminated, nturns>>

\* mutant: the notice is spoken and the loop asks the agent again
NoResponseAsksAgain(reply) ==
    LET res == AgentRun(WithIds(reply, next_id)) IN
    /\ CanStep
    /\ res.tag = "ok"
    /\ ~HasContent(res.data)
    /\ res.data.tool_calls = <<>>
    /\ Stepped(reply)
    /\ agent_response_res' = res
    /\ history' = Append(history, res.data)
    /\ spoken' = Append(spoken, Notice("no_response", ""))
    /\ pc' = "loop"
    /\ UNCHANGED <<motion, mode_manager, listened, max_retries, interrupted, servo_angles,
                   is_running, retries_left, tool_results,
                   done_order, executed, ran, terminated, nturns, turnEnd>>

\* lines 73-76: neither an answer nor a command
NoResponse(reply) ==
    LET res == AgentRun(WithIds(reply, next_id)) IN
    /\ CanStep
    /\ res.tag = "ok"
    /\ ~HasContent(res.data)
    /\ res.data.tool_calls = <<>>
    /\ Stepped(reply)
    /\ agent_response_res' = res
    /\ history' = Append(history, res.data)
    /\ spoken' = Append(spoken, Notice("no_response", ""))
    /\ pc' = "top"
    /\ turnEnd' = "no_response"
    /\ UNCHANGED <<motion, mode_manager, listened, max_retries, interrupted, servo_angles,
                   is_running, retries_left, tool_results,
                   done_order, executed, ran, terminated, nturns>>

\* lines 81-86: a call named shutdown is in the batch
ShutdownCommand(reply) ==
    LET res == AgentRun(WithIds(reply, next_id)) IN
    /\ CanStep
    /\ res.tag = "ok"
    /\ ~HasContent(res.data)
    /\ res.data.tool_calls # <<>>
    /\ HasShutdown(res.data.tool_calls)
    /\ Stepped(reply)
    /\ agent_response_res' = res
    /\ history' = Append(history, res.data)
    /\ spoken' = Append(spoken, ShutdownReason(FirstShutdown(res.data.tool_calls)))
    /\ is_running' = stop_loop(is_running)
    /\ terminated' = TRUE
    /\ pc' = "top"
    /\ turnEnd' = "shutdown"
    /\ UNCHANGED <<motion, mode_manager, listened, max_retries, interrupted, servo_angles,
                   retries_left, tool_results, done_order,
                   executed, ran, nturns>>

\* line 88: one task per call of the batch, then await asyncio.gather
Dispatch(reply) ==
    LET res == AgentRun(WithIds(reply, next_id)) IN
    /\ CanStep
    /\ res.tag = "ok"
    /\ ~HasContent(res.data)
    /\ res.data.tool_calls # <<>>
    /\ ~HasShutdown(res.data.tool_calls)
    /\ Stepped(reply)
    /\ agent_response_res' = res
    /\ history' = Append(history, res.data)
    /\ tool_results' = [i \in 1..Len(res.data.tool_calls) |-> Pending]
    /\ done_order' = <<>>
    /\ pc' = "gather"
    /\ UNCHANGED <<motion, mode_manager, listened, max_retries, interrupted, servo_angles,
                   is_running, retries_left, spoken, executed, ran,
                   turnEnd, terminated, nturns>>

\* mutant: a failed task stops the tasks of the batch that have not finished
TaskRunnableFailFast(results, i) ==
    /\ results[i] = Pending
    /\ \A j \in DOMAIN results : results[j].tag # "err"

\* asyncio.gather(..., return_exceptions=True): every task runs to its end
\* whatever the other tasks of the batch did
TaskRunnable(results, i) == results[i] = Pending

\* one gathered task, execute_tool_call(tc), completes
ExecuteToolCall(i, servo) ==
    /\ pc = "gather"
    /\ i \in 1..Len(tool_results)
    /\ TaskRunnable(tool_results, i)
    /\ tool_results' =
          [tool_results EXCEPT ![i] = execute_tool_call(agent_message.tool_calls[i], servo)]
    /\ done_order' = Append(done_order, i)
    /\ servo_angles' =
          IF HandlerRuns(agent_message.tool_calls[i])
             /\ agent_message.tool_calls[i].name = "set_servo_angle"
          THEN servo_angles \o ServoCommand(agent_message.tool_calls[i].args)
          ELSE servo_angles
    /\ motion' =
          IF HandlerRuns(agent_message.tool_calls[i])
             /\ agent_message.tool_calls[i].name \in {"move_p2p_pose", "move_p2p_joints"}
          THEN Moved(motion, agent_message.tool_calls[i].args.target,
                     get_state(EmptyDict), DummyCheck, DummyMove)
          ELSE motion
    /\ executed' = executed \cup {agent_message.tool_calls[i].id}
    /\ ran' = IF HandlerRuns(agent_message.tool_calls[i])
              THEN ran \cup {agent_message.tool_calls[i].id}
              ELSE ran
    /\ UNCHANGED <<mode_manager, listened, tools_sent, requests, last_reply,
                   max_retries, interrupted, is_running, history, pc, retries_left,
                   agent_response_res, spoken, stepsTaken, turnEnd, terminated,
                   nsteps, nturns, next_id>>

AllDone == \A i \in 1..Len(tool_results) : tool_results[i] # Pending

\* mutant: the results come back in the order the tasks completed
GatherResultsAsCompleted(results, order) ==
    [k \in 1..Len(order) |-> results[order[k]]]

\* gather returns the results in the order of the tasks it was given
GatherResults(results, order) == results

\* the tool messages of lines 92-111 for the first k results
ToolMessages(calls, results, k) ==
    [i \in 1..k |-> ToolMessage(calls[i], results[i])]

HasErrors(results) == \E i \in 1..Len(results) : results[i].tag = "err"

\* lines 113-119: the budget after a batch
RetriesAfter(left, results) == IF HasErrors(results) THEN left - 1 ELSE left

\* lines 92-119: every result is rendered and appended; back to the while
AppendResults ==
    LET results == GatherResults(tool_results, done_order)
        calls == agent_message.tool_calls IN
    /\ pc = "gather"
    /\ AllDone
    /\ \A i \in 1..Len(results) : CanRender(results[i])
    /\ history' = history \o ToolMessages(calls, results, Len(results))
    /\ retries_left' = RetriesAfter(retries_left, results)
    /\ spoken' = IF HasErrors(results) /\ retries_left' = 0
                 THEN Append(spoken, Notice("retries_exhausted", ""))
                 ELSE spoken
    /\ pc' = "loop"
    /\ done_order' = <<>>
    /\ UNCHANGED <<motion, mode_manager, listened, tools_sent, requests, last_reply,
                   max_retries, interrupted, servo_angles, is_running,
                   agent_response_res, tool_results, executed, ran,
                   stepsTaken, turnEnd, terminated, nsteps, nturns, next_id>>

\* mutant: the handler of the exception also stops the loop
AppendRaisesStopsLoop ==
    LET results == GatherResults(tool_results, done_order)
        calls == agent_message.tool_calls
        bad == CHOOSE i \in 1..Len(results) :
                  /\ ~CanRender(results[i])
                  /\ \A j \in 1..(i - 1) : CanRender(results[j]) IN
    /\ pc = "gather"
    /\ AllDone
    /\ \E i \in 1..Len(results) : ~CanRender(results[i])
    /\ history' = history \o ToolMessages(calls, results, bad - 1)
    /\ spoken' = Append(spoken, Notice("system_error", ""))
    /\ pc' = "top"
    /\ turnEnd' = "raised"
    /\ is_running' = stop_loop(is_running)
    /\ done_order' = <<>>
    /\ UNCHANGED <<motion, mode_manager, listened, tools_sent, requests, last_reply,
                   max_retries, interrupted, servo_angles,
                   retries_left, agent_response_res, tool_results, executed,
                   ran, stepsTaken, terminated, nsteps, nturns, next_id>>

\* lines 92-111 and 143-145: json.dumps raises TypeError at the first payload
\* it cannot serialize; the results before it are appended, the exception
\* leaves _run_agent_loop and run_interactive_loop speaks the system error
AppendRaises ==
    LET results == GatherResults(tool_results, done_order)
        calls == agent_message.tool_calls
        bad == CHOOSE i \in 1..Len(results) :
                  /\ ~CanRender(results[i])
                  /\ \A j \in 1..(i - 1) : CanRender(results[j]) IN
    /\ pc = "gather"
    /\ AllDone
    /\ \E i \in 1..Len(results) : ~CanRender(results[i])
    /\ history' = history \o ToolMessages(calls, results, bad - 1)
    /\ spoken' = Append(spoken, Notice("system_error", ""))
    /\ pc' = "top"
    /\ turnEnd' = "raised"
    /\ done_order' = <<>>
    /\ UNCHANGED <<motion, mode_manager, listened, tools_sent, requests, last_reply,
                   max_retries, interrupted, servo_angles, is_running,
                   retries_left, agent_response_res, tool_results, executed,
                   ran, stepsTaken, terminated, nsteps, nturns, next_id>>

Next ==
    \/ EnterIteration
    \/ ExitLoop
    \/ ListenEmpty
    \/ \E text \in Utterances : StartTurn(text)
    \/ StopLoop
    \/ LoopExit
    \/ \E reply \in Replies : AgentError(reply)
    \/ \E reply \in Replies : FinalAnswer(reply)
    \/ \E reply \in Replies : NoResponse(reply)
    \/ \E reply \in Replies : ShutdownCommand(reply)
    \/ \E reply \in Replies : Dispatch(reply)
    \/ \E i \in DOMAIN tool_results, servo \in ServoOutcomes : ExecuteToolCall(i, servo)
    \/ AppendResults
    \/ AppendRaises

Spec == Init /\ [][Next]_vars

\* ------------------------------------------- LLMAgent.run on its own
\* calls as a backend may send them: with or without an id, the arguments
\* a JSON object, a text that does not decode, or ""
CallShapes ==
    {[name |-> n, arguments |-> a, has_id |-> b] :
        n \in {"set_servo_angle", "fly"},
        a \in {Json([angle |-> IntV(90)]), Json(EmptyDict),
               [enc |-> "malformed"], [enc |-> "empty"]},
        b \in BOOLEAN}
RawBatches == UNION {[1..n -> CallShapes] : n \in 0..2}
Numbered(batch) ==
    [i \in DOMAIN batch |->
        [id |-> IF batch[i].has_id THEN i ELSE 0, name |-> batch[i].name,
         arguments |-> batch[i].arguments]]

\* every kind of answer to the request of line 128
BackendReplies ==
    {Reply(t, "none", NoContent, <<>>) : t \in {"fail", "timeout", "status"}}
    \cup {Reply("ok", b, NoContent, <<>>) :
            b \in {"empty", "undecodable", "json_not_object",
                   "json_empty_choices", "json_no_choices"}}
    \cup {Reply("ok", "json", c, Numbered(b)) :
            c \in {NoContent, Text(<<>>), Text(Plain)}, b \in RawBatches}

\* one call of agent.run, whoever makes it
AgentCall(reply) ==
    /\ nsteps < MaxSteps
    /\ agent_response_res' = AgentRun(reply)
    /\ last_reply' = reply
    /\ requests' = requests + PostCalls(reply)
    /\ tools_sent' = PayloadTools(tools_sent)
    /\ nsteps' = nsteps + 1
    /\ UNCHANGED <<motion, mode_manager, listened, max_retries, is_running, history, pc, retries_left,
                   tool_results, done_order, spoken, executed, ran, stepsTaken,
                   turnEnd, terminated, nturns, next_id, interrupted,
                   servo_angles>>

AgentNext == \E reply \in BackendReplies : AgentCall(reply)

AgentSpec == Init /\ [][AgentNext]_vars

\* ---------------------------------------------- ModeManager on its own
\* switch calls made on one ModeManager
MaxSwitches == 3
ModeNames == {"llm", "manual"}
SwitchNames == ModeNames \cup {"auto"}

\* a program that has built its LLMMode and a ModeManager without modes
ModeInit ==
    /\ max_retries \in 0..MaxRetries
    /\ is_running = FALSE
    /\ history = <<>>
    /\ pc = "top"
    /\ retries_left = 0
    /\ agent_response_res = Pending
    /\ tool_results = <<>>
    /\ done_order = <<>>
    /\ spoken = <<>>
    /\ executed = {}
    /\ ran = {}
    /\ stepsTaken = 0
    /\ turnEnd = "none"
    /\ terminated = FALSE
    /\ nsteps = 0
    /\ nturns = 0
    /\ next_id = 1
    /\ interrupted = FALSE
    /\ servo_angles = <<>>
    /\ tools_sent = <<>>
    /\ requests = 0
    /\ last_reply = NoReply
    /\ listened = "never"
    /\ mode_manager = ModeManager
    /\ motion = NoMotion

Register(name) ==
    /\ name \notin mode_manager.modes
    /\ mode_manager' = register(mode_manager, name)
    /\ UNCHANGED <<max_retries, is_running, history, pc, retries_left,
                   agent_response_res, tool_results, done_order, spoken,
                   executed, ran, stepsTaken, turnEnd, terminated, nsteps,
                   nturns, next_id, interrupted, servo_angles, tools_sent,
                   requests, last_reply, listened, motion>>

\* _is_running after the calls a switch made: LLMMode.exit calls stop_loop
\* (line 161), LLMMode.enter sets the flag (line 39)
RECURSIVE RunningAfter(_, _)
RunningAfter(running, made) ==
    IF made = <<>> THEN running
    ELSE RunningAfter(IF Head(made) = <<"enter", "llm">> THEN TRUE
                      ELSE IF Head(made) = <<"exit", "llm">> THEN stop_loop(running)
                      ELSE running,
                      Tail(made))

Switch(name) ==
    LET mm == switch(mode_manager, name) IN
    /\ mode_manager.switches < MaxSwitches
    /\ mode_manager' = mm
    /\ is_running' = RunningAfter(is_running,
                                  SubSeq(mm.calls, Len(mode_manager.calls) + 1, Len(mm.calls)))
    /\ UNCHANGED <<max_retries, history, pc, retries_left,
                   agent_response_res, tool_results, done_order, spoken,
                   executed, ran, stepsTaken, turnEnd, terminated, nsteps,
                   nturns, next_id, interrupted, servo_angles, tools_sent,
                   requests, last_reply, listened, motion>>

ModeNext ==
    \/ \E name \in ModeNames : Register(name)
    \/ \E name \in SwitchNames : Switch(name)

ModeSpec == ModeInit /\ [][ModeNext]_vars

\* ------------------------------------------ RobotTools.move_p2p on its own
\* move_p2p calls made on one RobotTools
MaxMoves == 2
\* a Pose, a Joints, and the text a decoded call carries
Targets == {Obj("Pose", "p1"), Obj("Joints", "j1"), StrV(<<"j">>)}
\* what a collaborator does: returns Ok, returns Err, raises
Raises == [tag |-> "raise", type |-> "Exception"]
JointsOutcomes == {DummyJoints, Err("driver_error", "read failed"), Raises}
PoseOutcomes == {DummyPose, Err("fk_error", "no solution")}
CheckOutcomes == {DummyCheck, Err("safety_violation", "out of workspace"), Raises}
CommandOutcomes == {DummyMove, Err("driver_error", "rejected")}

MoveCall(target, joints_res, pose_res, check, command_res) ==
    /\ motion.moves < MaxMoves
    /\ motion' = Moved(motion, target, GetState(joints_res, pose_res), check, command_res)
    /\ UNCHANGED <<max_retries, is_running, history, pc, retries_left,
                   agent_response_res, tool_results, done_order, spoken,
                   executed, ran, stepsTaken, turnEnd, terminated, nsteps,
                   nturns, next_id, interrupted, servo_angles, tools_sent,
                   requests, last_reply, listened, mode_manager>>

MotionNext ==
    \E target \in Targets, joints_res \in JointsOutcomes, pose_res \in PoseOutcomes,
       check \in CheckOutcomes, command_res \in CommandOutcomes :
        MoveCall(target, joints_res, pose_res, check, command_res)

MotionSpec == Init /\ [][MotionNext]_vars

\* ================================================================ claims
\* an agent.run call was made in this step
InferenceStep == stepsTaken' = stepsTaken + 1
\* _run_agent_loop has returned (an exception that leaves it is no return)
Returned == turnEnd \in {"agent_error", "final_answer", "no_response", "shutdown", "exhausted"}
BatchOf(res) == IF res.tag = "ok" THEN res.data.tool_calls ELSE <<>>
NamesShutdown(calls) == \E i \in DOMAIN calls : calls[i].name = "shutdown"
IdsOf(calls) == {calls[i].id : i \in DOMAIN calls}
IsPrefix(a, b) == Len(a) <= Len(b) /\ SubSeq(b, 1, Len(a)) = a

\* C1: when the message the agent returns has a batch with a call named
\* shutdown at any index, no call of the batch is given to execute_tool_call
\* and no handler runs, the reason of the first shutdown call (or the default
\* phrase) is the one thing spoken, _is_running becomes false and the turn
\* returns without another inference call; once that has happened the
\* interactive loop never acquires another utterance.
C1_TerminationPrecedence ==
    /\ [][(InferenceStep /\ NamesShutdown(BatchOf(agent_response_res')))
            => /\ executed' = executed
               /\ ran' = ran
               /\ \E i \in DOMAIN BatchOf(agent_response_res') :
                    /\ BatchOf(agent_response_res')[i].name = "shutdown"
                    /\ \A j \in 1..(i - 1) : BatchOf(agent_response_res')[j].name # "shutdown"
                    /\ spoken' = Append(spoken,
                          IF "reason" \in DOMAIN BatchOf(agent_response_res')[i].args
                          THEN Spoken(BatchOf(agent_response_res')[i].args.reason.v)
                          ELSE Notice("shutdown_default", ""))
               /\ ~is_running'
               /\ pc' = "top"]_vars
    /\ [](NamesShutdown(BatchOf(agent_response_res))
            => /\ ~is_running
               /\ pc \in {"top", "exited"}
               /\ IdsOf(BatchOf(agent_response_res)) \cap (executed \cup ran) = {})

\* C1 witness: a batch with shutdown at its second index ended the session
C1_Witness ==
    /\ pc = "exited"
    /\ turnEnd = "shutdown"
    /\ Len(agent_message.tool_calls) = 2
    /\ agent_message.tool_calls[1].name = "get_joint_positions"
    /\ agent_message.tool_calls[2].name = "shutdown"
    /\ spoken = <<Spoken(Bye)>>

\* the trailing tool messages of the history hold a failure
EndsWithUnseenFailure(h) ==
    \E k \in DOMAIN h :
        /\ h[k].role = "tool"
        /\ h[k].content.fmt = "error"
        /\ \A j \in k..Len(h) : h[j].role = "tool"

\* C2: a failed tool call does not end the turn: after a batch with a failed
\* outcome an inference call follows in the same turn and sees the 'Error:'
\* tool message, for every max_retries >= 1; so a turn never returns with a
\* failure message that no inference call has seen.
C2_FailureReportedToAgent ==
    (max_retries >= 1 /\ Returned /\ pc = "top") => ~EndsWithUnseenFailure(history)

\* C3: whatever the agent answers, a turn performs at most a fixed number of
\* inference steps: the inference steps of a turn never exceed the budget the
\* loop is given, max_retries (the loop has no other limit).
C3_BoundedAttempts == stepsTaken <= max_retries

\* C4: every call of _run_agent_loop that returns has made exactly one
\* voice_out.speak call, for every max_retries (0 included).
C4_ExactlyOneMessage == Returned => Len(spoken) = 1

\* C5: when the first inference step of a turn returns an error, the history
\* after the turn still holds what it held before, its last message being the
\* turn's user message.
C5_HistoryPreservedOnError ==
    (turnEnd = "agent_error" /\ stepsTaken = 1)
        => (history # <<>> /\ history[Len(history)].role = "user")

\* C6: the history is append-only: over every step the old history is a
\* prefix of the new one.
C6_AppendOnly == [][IsPrefix(history, history')]_vars

\* the tool messages after position p that answer id
Answers(h, p, id) == {k \in (p + 1)..Len(h) : h[k].role = "tool" /\ h[k].tool_call_id = id}

\* C7: whenever no step is in progress, every ToolCall id of an assistant
\* message in the history is the tool_call_id of exactly one later tool
\* message.
C7_IdRoundTrip ==
    (pc \in {"top", "input", "exited", "loop"})
        => \A p \in DOMAIN history :
             \A c \in DOMAIN history[p].tool_calls :
                Cardinality(Answers(history, p, history[p].tool_calls[c].id)) = 1

\* C8: when the gather of a dispatched batch of n invocations is over, the n
\* tool messages are appended in batch order, the i-th with the id and the
\* outcome of the i-th invocation, whatever the completion order was.
C8_OrderPreserved ==
    [][(pc = "gather" /\ pc' # "gather")
        => /\ Len(history') = Len(history) + Len(agent_message.tool_calls)
           /\ \A i \in DOMAIN agent_message.tool_calls :
                LET m == history'[Len(history) + i] IN
                /\ m.role = "tool"
                /\ m.tool_call_id = agent_message.tool_calls[i].id
                /\ \E servo \in ServoOutcomes :
                     m = ToolMessage(agent_message.tool_calls[i],
                            execute_tool_call(agent_message.tool_calls[i], servo))]_vars

\* C9: in a dispatched batch a failed invocation never keeps a sibling from
\* running to its end: every invocation still pending can complete, every
\* completed one has exactly one outcome, that of its own call, and when the
\* gather is over every invocation of the batch has its outcome.
C9_ErrorIsolation ==
    /\ pc = "gather" =>
         /\ DOMAIN tool_results = DOMAIN agent_message.tool_calls
         /\ \A i \in DOMAIN tool_results :
              /\ tool_results[i] = Pending => ENABLED ExecuteToolCall(i, "true")
              /\ tool_results[i] # Pending =>
                   /\ Cardinality({k \in DOMAIN done_order : done_order[k] = i}) = 1
                   /\ agent_message.tool_calls[i].id \in executed
                   /\ \E servo \in ServoOutcomes :
                        tool_results[i] = execute_tool_call(agent_message.tool_calls[i], servo)
    /\ (pc # "gather" /\ BatchOf(agent_response_res) # <<>>
            /\ ~NamesShutdown(BatchOf(agent_response_res))) =>
         /\ IdsOf(BatchOf(agent_response_res)) \subseteq executed
         /\ \A i \in DOMAIN tool_results : tool_results[i].tag \in {"ok", "err"}

\* C9 witness: the first call of a batch failed and its sibling completed
\* after it with a result of its own
C9_Witness ==
    /\ pc = "gather"
    /\ done_order = <<1, 2>>
    /\ tool_results[1].tag = "err"
    /\ tool_results[2].tag = "ok"

\* C10: on a step where agent.run returns an error the loop speaks one error
\* notice holding the error message, runs no handler, and returns: no handler
\* and no inference call follows in that turn.
C10_InferenceFailureTerminal ==
    /\ [][(InferenceStep /\ agent_response_res'.tag = "err")
            => /\ spoken' = Append(spoken, Notice("agent_error", agent_response_res'.message))
               /\ executed' = executed
               /\ ran' = ran
               /\ pc' = "top"]_vars
    /\ [](agent_response_res.tag = "err" => ~InTurn)

\* C10 witness: the error came on the second step, after a dispatched batch
C10_Witness ==
    /\ agent_response_res.tag = "err"
    /\ stepsTaken = 2
    /\ executed # {}
    /\ pc = "top"
    /\ Len(spoken) = 1
    /\ spoken[1].fmt = "agent_error"

\* C11: steps are sequential and a step's results are visible to the next:
\* whenever agent.run is called after a dispatched batch of n calls in the
\* same turn, no task is pending and the history given to the call ends with
\* the assistant message of the batch followed by exactly its n tool
\* messages, the i-th with the id of the i-th call and the rendered result of
\* its handler.
C11_ResultsVisibleToNextStep ==
    [][(InferenceStep /\ stepsTaken >= 1)
        => LET calls == BatchOf(agent_response_res)
               n == Len(calls) IN
           /\ pc = "loop"
           /\ n >= 1
           /\ Len(history) > n
           /\ history[Len(history) - n] = agent_message
           /\ \A i \in 1..n :
                /\ tool_results[i].tag \in {"ok", "err"}
                /\ history[Len(history) - n + i] = ToolMessage(calls[i], tool_results[i])
           /\ history[Len(history)].role = "tool"
           /\ history[Len(history)].tool_call_id = calls[n].id]_vars

\* C11 witness: a second inference call was made after a batch of two calls,
\* the first of which failed; both tool messages precede its answer
C11_Witness ==
    /\ stepsTaken = 2
    /\ turnEnd = "final_answer"
    /\ Len(history) = 5
    /\ Len(history[2].tool_calls) = 2
    /\ history[3].role = "tool"
    /\ history[3].content.fmt = "error"
    /\ history[4].role = "tool"
    /\ history[4].content.fmt = "json"
    /\ history[5].role = "assistant"

\* C12: rendering the successful payloads never raises: when the gather of a
\* dispatched batch is over, the append loop ends without an exception and
\* every invocation whose handler returned Ok has its tool message with the
\* serialized payload in the history, run_ik's list of Joints and move_p2p's
\* MoveHandle included.
C12_SerializationTotal ==
    [][(pc = "gather" /\ pc' # "gather")
        => /\ turnEnd' # "raised"
           /\ \A i \in DOMAIN tool_results :
                tool_results[i].tag = "ok"
                    => \E k \in (Len(history) + 1)..Len(history') :
                          /\ history'[k].role = "tool"
                          /\ history'[k].tool_call_id = agent_message.tool_calls[i].id
                          /\ history'[k].content.fmt = "json"]_vars

\* the retries-exhausted notices among what was spoken
ExhaustedNotices(s) == {k \in DOMAIN s : s[k] = Notice("retries_exhausted", "")}

\* C13: in a turn retries_left starts at max_retries; when the gather of a
\* dispatched batch is over it is decremented by exactly one if the batch has
\* at least one failed outcome (however many) and is unchanged if it has none;
\* nothing else changes it; the retries-exhausted notice is spoken exactly at
\* the decrement that reaches zero, and no inference call is made with a
\* counter of zero.
C13_RetryBudgetAccounting ==
    /\ [][nturns' = nturns + 1 => retries_left' = max_retries]_vars
    /\ [][(pc = "gather" /\ pc' # "gather")
            => LET failed == \E i \in DOMAIN tool_results : tool_results[i].tag = "err" IN
               /\ retries_left' = IF failed THEN retries_left - 1 ELSE retries_left
               /\ Cardinality(ExhaustedNotices(spoken')) =
                     Cardinality(ExhaustedNotices(spoken))
                        + (IF failed /\ retries_left' = 0 THEN 1 ELSE 0)]_vars
    /\ [][(retries_left' # retries_left)
            => (nturns' = nturns + 1 \/ (pc = "gather" /\ pc' # "gather"))]_vars
    /\ [][InferenceStep => retries_left > 0]_vars

\* C14: when the signal handler calls stop_loop() while the batch of a
\* step is being gathered, the call itself leaves the history and the tasks
\* alone, no inference call is started in that turn after the step, and the
\* interactive loop does not go on to acquire another utterance.
C14_InterruptStopsAfterStep ==
    /\ [][(interrupted' /\ ~interrupted)
            => (history' = history /\ pc' = pc /\ tool_results' = tool_results)]_vars
    /\ [][interrupted => ~InferenceStep]_vars
    /\ [][interrupted => pc' # "input"]_vars

\* C15: a step ends the turn as a final answer (the text is spoken, nothing
\* is dispatched) only when the assistant message has non-empty text and no
\* tool calls; a message with tool calls is never spoken as the answer: if a
\* call is named shutdown the turn ends by the shutdown branch, otherwise one
\* task per call of the batch is created and, when the gather is over, every
\* call of the batch has been given to execute_tool_call.
C15_FinalTextOnlyWithoutCalls ==
    /\ [][(InferenceStep /\ agent_response_res'.tag = "ok")
            => LET m == agent_response_res'.data IN
               /\ turnEnd' = "final_answer"
                    => /\ m.content.fmt = "text"
                       /\ m.content.chars # <<>>
                       /\ m.tool_calls = <<>>
                       /\ executed' = executed
               /\ m.tool_calls # <<>>
                    => IF NamesShutdown(m.tool_calls)
                       THEN turnEnd' = "shutdown" /\ executed' = executed
                       ELSE /\ pc' = "gather"
                            /\ spoken' = spoken
                            /\ tool_results' = [i \in DOMAIN m.tool_calls |-> Pending]]_vars
    /\ [][(pc = "gather" /\ pc' # "gather")
            => IdsOf(BatchOf(agent_response_res)) \subseteq executed]_vars

\* C15 witness: a batch of two calls without shutdown was dispatched whole,
\* nothing was spoken and the loop is back at its head
C15_Witness ==
    /\ pc = "loop"
    /\ stepsTaken = 1
    /\ Len(agent_message.tool_calls) = 2
    /\ IdsOf(agent_message.tool_calls) \subseteq executed
    /\ spoken = <<>>
    /\ history[Len(history)].role = "tool"

\* C16: everything given to voice_out.speak during a turn is sanitized text:
\* it holds only characters of the allowed set, and a text that came from
\* the agent is what _clean_text_for_tts leaves of it.
C16_SpokenTextSanitized ==
    \A k \in DOMAIN spoken :
        /\ \A j \in DOMAIN SpeechChars(spoken[k]) : Kept(SpeechChars(spoken[k])[j])
        /\ spoken[k].fmt = "text"
              => _clean_text_for_tts(spoken[k].chars) = spoken[k].chars

\* C17: servo.set_angle is only ever called with an integer in 0..180; a
\* set_servo_angle call with an integer angle out of that range returns
\* Err(invalid_angle, "Angle must be between 0 and 180.") and one with a
\* value that is not an integer returns Err(invalid_angle, ...), both
\* without a call of servo.set_angle.
C17_ServoRangeSafety ==
    /\ [](\A k \in DOMAIN servo_angles : servo_angles[k] \in 0..180)
    /\ [][(pc = "gather" /\ Len(done_order') = Len(done_order) + 1)
            => LET i == done_order'[Len(done_order')]
                   tc == agent_message.tool_calls[i] IN
               (tc.name = "set_servo_angle" /\ DOMAIN tc.args = {"angle"})
                  => /\ (tc.args.angle.t = "int" /\ tc.args.angle.v \notin 0..180)
                          => /\ tool_results'[i] =
                                  Err("invalid_angle", "Angle must be between 0 and 180.")
                             /\ servo_angles' = servo_angles
                     /\ tc.args.angle.t # "int"
                          => /\ tool_results'[i].tag = "err"
                             /\ tool_results'[i].code = "invalid_angle"
                             /\ servo_angles' = servo_angles]_vars

\* C18: a dispatched call whose name is not a key of the handler map gets
\* Err(action_not_found, "Unknown action: '<name>'") from execute_tool_call
\* and no handler runs for it; when the gather is over the tool message
\* "Error: Unknown action: '<name>'" with the id of the call is appended.
C18_UnknownAction ==
    /\ [][(pc = "gather" /\ Len(done_order') = Len(done_order) + 1)
            => LET i == done_order'[Len(done_order')]
                   tc == agent_message.tool_calls[i] IN
               tc.name \notin DOMAIN skill_map
                  => /\ tool_results'[i] =
                          Err("action_not_found", "Unknown action: '" \o tc.name \o "'")
                     /\ ran' = ran
                     /\ servo_angles' = servo_angles]_vars
    /\ [][(pc = "gather" /\ pc' # "gather")
            => \A i \in DOMAIN agent_message.tool_calls :
                 LET tc == agent_message.tool_calls[i] IN
                 tc.name \notin DOMAIN skill_map
                    => \E k \in (Len(history) + 1)..Len(history') :
                          history'[k] =
                             AgentMessage("tool",
                                [fmt |-> "error",
                                 message |-> "Unknown action: '" \o tc.name \o "'"],
                                <<>>, tc.id)]_vars

\* C19: execute_tool_call always ends with a Result; for a known name whose
\* arguments do not bind to the handler's parameters it is
\* Err(invalid_params, ...), and when the handler body ran and raised (here:
\* servo.set_angle was called and the call did not come back) it is
\* Err(execution_failed, ...) whatever the type of the exception.
C19_FaultClassification ==
    [][(pc = "gather" /\ Len(done_order') = Len(done_order) + 1)
        => LET i == done_order'[Len(done_order')]
               tc == agent_message.tool_calls[i] IN
           /\ tool_results'[i].tag \in {"ok", "err"}
           /\ (tc.name \in DOMAIN skill_map /\ ~ArgsFit(tc.name, tc.args))
                 => (tool_results'[i].tag = "err"
                     /\ tool_results'[i].code = "invalid_params"
                     /\ ran' = ran)
           /\ (servo_angles' # servo_angles /\ tool_results'[i].tag = "err"
                 /\ tool_results'[i].code # "servo_error")
                 => tool_results'[i].code = "execution_failed"]_vars

\* C20: _is_running, true after enter, never goes from false back to true;
\* it is false once the shutdown call has been observed, and false once a
\* turn has ended with its retries used up; no turn starts while it is false.
C20_RunningFlipsOnce ==
    /\ [][~is_running => ~is_running']_vars
    /\ [](terminated => ~is_running)
    /\ []((ExhaustedNotices(spoken) # {} /\ ~InTurn) => ~is_running)
    /\ [][nturns' = nturns + 1 => is_running]_vars

\* the member of the handler set an entry of the catalog was made for
MemberOf(entry) ==
    CHOOSE k \in DOMAIN robot_tools : Join(robot_tools[k].name) = entry.name
\* the annotations that declare an integer or floating type, a boolean type
NumericAnnotations == {AnnInt, AnnFloat, AnnOptionalFloat}
BooleanAnnotations == {}
SeqToSet(s) == {s[k] : k \in DOMAIN s}

\* C21: in every catalog sent to the backend, for every parameter of every
\* exposed handler, the kind is "number" exactly when the declared type is
\* an integer or floating type, "boolean" exactly when it is a boolean
\* type and "string" otherwise (Joints, Pose, Union[Pose, Joints], str are
\* "string"), and the parameter is listed as required exactly when it has
\* no default value.
C21_ParameterKinds ==
    \A i \in DOMAIN tools_sent :
        LET entry == tools_sent[i]
            m == robot_tools[MemberOf(entry)]
        IN /\ DOMAIN entry.properties = DOMAIN m.params
           /\ \A k \in DOMAIN m.params :
                LET p == m.params[k]
                    kind == entry.properties[k].type
                IN /\ entry.properties[k].name = p.name
                   /\ kind = (IF p.annotation \in NumericAnnotations THEN "number"
                              ELSE IF p.annotation \in BooleanAnnotations THEN "boolean"
                              ELSE "string")
                   /\ (p.name \in SeqToSet(entry.required)) <=> ~p.has_default

\* the names of the exposed handlers in the order RobotTools declares them
DeclaredNames ==
    LET exposed == SelectSeq(robot_tools,
                             LAMBDA m : m.kind = "async" /\ ~StartsWith(m.name, <<"_">>))
    IN [i \in DOMAIN exposed |-> Join(exposed[i].name)]

\* C22: the action definitions of every catalog sent to the backend are in
\* the declaration order of the handler set, not in another order such as
\* alphabetical by name.
C22_CatalogOrder ==
    tools_sent # <<>> =>
        [i \in DOMAIN tools_sent |-> tools_sent[i].name] = DeclaredNames

LastUser(h) ==
    IF \E i \in DOMAIN h : h[i].role = "user"
    THEN CHOOSE i \in DOMAIN h :
            h[i].role = "user" /\ \A j \in DOMAIN h : h[j].role = "user" => j <= i
    ELSE 0
\* the batch of the message went to the dispatcher
Dispatched(m) == m.tool_calls # <<>> /\ ~NamesShutdown(m.tool_calls)
\* msgs is, step after step, an assistant message followed by one tool
\* message per call of its dispatched batch, in batch order
RECURSIVE StepsShape(_)
StepsShape(msgs) ==
    \/ msgs = <<>>
    \/ /\ msgs[1].role = "assistant"
       /\ LET n == IF Dispatched(msgs[1]) THEN Len(msgs[1].tool_calls) ELSE 0 IN
          /\ Len(msgs) >= 1 + n
          /\ \A k \in 1..n :
                /\ msgs[1 + k].role = "tool"
                /\ msgs[1 + k].tool_call_id = msgs[1].tool_calls[k].id
          /\ StepsShape(SubSeq(msgs, n + 2, Len(msgs)))
\* steps of the turn whose inference call succeeded
CompletedSteps == stepsTaken

\* C24: whenever a turn is between two steps or has ended (an inference
\* failure, which empties the history, aside), after N completed steps the
\* messages appended during the turn are exactly one user message followed,
\* for each step in order, by one assistant message and then one tool
\* message per invocation of that step's dispatched batch in batch order:
\* none is extra, missing or reordered.
C24_HistoryShape ==
    (turnEnd \notin {"none", "agent_error"} /\ pc # "gather") =>
        LET u == LastUser(history)
            appended == SubSeq(history, u + 1, Len(history))
        IN /\ u > 0
           /\ StepsShape(appended)
           /\ Cardinality({i \in DOMAIN appended : appended[i].role = "assistant"})
                = CompletedSteps

\* C25: every assistant message in the session history has non-empty text
\* or a non-empty tool_calls list, whatever reply the inference step got,
\* a reply with no content and no tool calls included.
C25_AssistantNeverEmpty ==
    \A i \in DOMAIN history :
        history[i].role = "assistant" =>
            HasContent(history[i]) \/ history[i].tool_calls # <<>>

\* the tool messages that directly follow position i of the history
RECURSIVE ToolRun(_, _)
ToolRun(h, i) ==
    IF i + 1 \in DOMAIN h /\ h[i + 1].role = "tool" THEN 1 + ToolRun(h, i + 1) ELSE 0

\* C26: in every state (while a batch is gathered, after the append, after
\* an exception ended the turn) the history holds, for every dispatched
\* batch, either all tool messages of the batch or none of them.
C26_NoPartialBatch ==
    \A i \in DOMAIN history :
        (history[i].role = "assistant" /\ Dispatched(history[i])) =>
            ToolRun(history, i) \in {0, Len(history[i].tool_calls)}

\* C27: when the message the agent returns has neither text nor calls, the
\* step speaks the "no response" notice and nothing else, gives no call to
\* the dispatcher and runs no handler, and ends the turn; no inference call
\* follows in that turn.
C27_ProtocolViolation ==
    [][/\ (/\ InferenceStep
           /\ agent_response_res'.tag = "ok"
           /\ ~HasContent(agent_response_res'.data)
           /\ agent_response_res'.data.tool_calls = <<>>)
          => /\ spoken' = Append(spoken, Notice("no_response", ""))
             /\ executed' = executed
             /\ ran' = ran
             /\ pc' = "top"
             /\ turnEnd' = "no_response"
       /\ turnEnd = "no_response" => ~InferenceStep]_vars

\* an empty message came as the second step of a turn, after a batch ran
C27_Witness ==
    /\ turnEnd = "no_response"
    /\ stepsTaken = 2
    /\ ran # {}
    /\ spoken = <<Notice("no_response", "")>>
    /\ history[Len(history)].role = "assistant"
    /\ ~HasContent(history[Len(history)])

\* the reply of the last request proposes tool calls and is well formed
ProposesCalls(reply) ==
    /\ reply.transport = "ok"
    /\ reply.body = "json"
    /\ reply.tool_calls # <<>>
    /\ \A i \in DOMAIN reply.tool_calls : HasId(reply.tool_calls[i])

\* C28: when a reply proposes tool calls, LLMAgent.run returns Ok with all
\* calls of the reply in their order, each with its id and name; a call
\* whose encoded arguments do not decode or are empty carries an empty
\* argument set, every other call its decoded arguments.
C28_MalformedArgumentsDegrade ==
    (agent_response_res # Pending /\ ProposesCalls(last_reply)) =>
        LET raw == last_reply.tool_calls IN
        /\ agent_response_res.tag = "ok"
        /\ Len(agent_response_res.data.tool_calls) = Len(raw)
        /\ \A i \in DOMAIN raw :
            LET tc == agent_response_res.data.tool_calls[i] IN
            /\ tc.id = raw[i].id
            /\ tc.name = raw[i].name
            /\ raw[i].arguments.enc \in {"malformed", "empty"} => tc.args = EmptyDict
            /\ raw[i].arguments.enc = "json" => tc.args = raw[i].arguments.value

\* a reply whose first call has undecodable arguments and whose second call
\* has arguments was turned into two calls
C28_Witness ==
    /\ nsteps > 0
    /\ ProposesCalls(last_reply)
    /\ Len(last_reply.tool_calls) = 2
    /\ last_reply.tool_calls[1].arguments.enc = "malformed"
    /\ last_reply.tool_calls[2].arguments = Json([angle |-> IntV(90)])
    /\ agent_response_res.tag = "ok"
    /\ agent_response_res.data.tool_calls[1].args = EmptyDict
    /\ agent_response_res.data.tool_calls[2].args = [angle |-> IntV(90)]

\* the request failed (transport, timeout, non-2xx status), the body is
\* empty or does not decode, or the reply is structurally invalid
Faulty(reply) ==
    \/ reply.transport # "ok"
    \/ reply.body \in {"empty", "undecodable", "json_not_object",
                       "json_empty_choices", "json_no_choices"}
    \/ \E i \in DOMAIN reply.tool_calls : ~HasId(reply.tool_calls[i])

\* C29: every call of the inference step returns one Outcome and makes one
\* backend request; a transport failure, a timeout, a non-2xx status, an
\* empty body, an undecodable body and a structurally invalid reply each
\* yield Err with the inference error code.
C29_OneOutcomePerCall ==
    agent_response_res # Pending =>
        /\ agent_response_res.tag \in {"ok", "err"}
        /\ requests = nsteps
        /\ Faulty(last_reply) =>
              agent_response_res.tag = "err" /\ agent_response_res.code = "llm_error"

\* the action names a catalog advertises
Advertised(tools) == {tools[i].name : i \in DOMAIN tools}

\* C30: the names advertised by every catalog sent to the backend, minus
\* the termination action "shutdown", are the keys of skill_map: a call
\* that uses an advertised name never gets the unknown-action error, and
\* every dispatchable handler is advertised.
C30_CatalogMatchesDispatcher ==
    tools_sent # <<>> =>
        /\ Advertised(tools_sent) \ {"shutdown"} = DOMAIN skill_map
        /\ \A n \in Advertised(tools_sent) \ {"shutdown"} :
              LET res == execute_tool_call(ToolCall(1, n, EmptyDict), "true") IN
              ~(res.tag = "err" /\ res.code = "tool_not_found")

\* C33: the message LLMAgent.run returns never has both text and calls:
\* for a reply with one or more tool calls the message has empty text (the
\* free text of the reply is dropped) and the calls, for a reply with none
\* the message has no tool calls.
C33_TextOrCallsNotBoth ==
    agent_response_res.tag = "ok" =>
        LET m == agent_response_res.data IN
        /\ ~(HasContent(m) /\ m.tool_calls # <<>>)
        /\ ProposesCalls(last_reply) =>
              m.content = Text(<<>>) /\ Len(m.tool_calls) = Len(last_reply.tool_calls)
        /\ last_reply.tool_calls = <<>> => m.tool_calls = <<>>

\* a reply with free text and a tool call was turned into a message
C33_Witness ==
    /\ ProposesCalls(last_reply)
    /\ last_reply.content = Text(Plain)
    /\ agent_response_res.tag = "ok"
    /\ agent_response_res.data.content = Text(<<>>)
    /\ Len(agent_response_res.data.tool_calls) = 1

\* C34: when listen_once returns empty text, run_interactive_loop leaves the
\* history unchanged, makes no inference call and no voice output, starts
\* no turn and changes nothing else of the session, and is back at the top
\* of the loop, from where it acquires the next utterance.
C34_EmptyUtteranceNoTurn ==
    [][(pc = "input" /\ pc' # "input" /\ listened' = "empty")
            => /\ pc' = "top"
               /\ UNCHANGED <<history, spoken, nsteps, requests, stepsTaken,
                              nturns, retries_left, turnEnd, executed, ran,
                              agent_response_res, terminated, tools_sent,
                              is_running>>]_vars

\* after a turn that spoke, an empty utterance was heard and skipped
C34_Witness ==
    /\ listened = "empty"
    /\ pc = "top"
    /\ is_running
    /\ nturns = 1
    /\ turnEnd = "final_answer"
    /\ Len(spoken) = 1
    /\ Len(history) = 2

\* C32: every call of _run_agent_loop starts with the full budget
\* max_retries, whatever batches failed in earlier turns; the steps of a
\* turn never change max_retries, and a step of a turn changes the running
\* flag only when it observes the termination action.
C32_BudgetPerTurn ==
    [][/\ nturns' = nturns + 1 => retries_left' = max_retries
       /\ max_retries' = max_retries
       /\ (InTurn /\ pc' # pc /\ is_running' # is_running)
            => (turnEnd' = "shutdown" /\ terminated')]_vars

\* a second turn began with the full budget after a batch of the first
\* turn had failed and used the budget up
C32_Witness ==
    /\ nturns = 2
    /\ pc = "loop"
    /\ stepsTaken = 0
    /\ max_retries = 1
    /\ retries_left = 1
    /\ \E i \in DOMAIN history :
          history[i].role = "tool" /\ history[i].content.fmt = "error"

\* C35: an exception that escapes a turn is caught by run_interactive_loop:
\* one "system error" notice is spoken, the running flag is left as it was
\* and the loop is back at its top; the loop is left only with the flag
\* false, and the flag goes false only by the termination action or by a
\* call of stop_loop (a stop request, an interrupt or a cancellation).
C35_LoopSurvivesException ==
    [][/\ (turnEnd # "raised" /\ turnEnd' = "raised")
            => /\ spoken' = Append(spoken, Notice("system_error", ""))
               /\ is_running' = is_running
               /\ pc' = "top"
       /\ (pc # "exited" /\ pc' = "exited") => ~is_running
       /\ (is_running /\ ~is_running')
            => \/ turnEnd' = "shutdown" /\ terminated'
               \/ pc' = pc /\ history' = history /\ spoken' = spoken]_vars

\* after a turn that ended with the exception, the next utterance began a
\* new turn
C35_Witness ==
    /\ nturns = 2
    /\ pc = "loop"
    /\ is_running
    /\ stepsTaken = 0
    /\ \E i \in DOMAIN history :
          /\ history[i].role = "assistant"
          /\ Dispatched(history[i])
          /\ i < LastUser(history)
          /\ ToolRun(history, i) < Len(history[i].tool_calls)

\* a switch call is made in this step
Switching == mode_manager'.switches = mode_manager.switches + 1

\* C36: a switch to a name that is not registered raises and leaves the
\* mode state unchanged (the mode that was current is still current and
\* got no exit call); a switch to a registered name that returns has made
\* the exit call of the previous mode before the enter call of the new one.
C36_SwitchUnknownKeepsMode ==
    [][Switching =>
        /\ mode_manager'.asked \notin mode_manager.modes
             => /\ mode_manager'.raised # "none"
                /\ mode_manager'.current = mode_manager.current
                /\ mode_manager'.calls = mode_manager.calls
        /\ (mode_manager'.asked \in mode_manager.modes /\ mode_manager'.raised = "none")
             => /\ mode_manager'.current = mode_manager'.asked
                /\ mode_manager'.calls =
                      (IF mode_manager.current # "None"
                       THEN Append(mode_manager.calls, <<"exit", mode_manager.current>>)
                       ELSE mode_manager.calls)
                      \o <<<<"enter", mode_manager'.asked>>>>]_vars

\* C31: every call of move_p2p gives the driver a motion command only when
\* the state read succeeded and safety.check_motion returned ok for the
\* target, and then exactly one command, for that target; when the state
\* read or the check fails, that failure is what the call returns and the
\* driver gets no motion command.
C31_MotionGatedBySafety ==
    [][motion'.moves = motion.moves + 1 =>
        LET c == motion'.call
            issued == SubSeq(motion'.goals, Len(motion.goals) + 1, Len(motion'.goals))
        IN /\ issued # <<>> =>
                /\ c.state_res.tag = "ok"
                /\ c.check.tag = "ok"
                /\ Len(issued) = 1
                /\ issued[1].target = c.target
           /\ c.state_res.tag # "ok" => c.result = c.state_res /\ issued = <<>>
           /\ (c.state_res.tag = "ok" /\ c.check.tag # "ok")
                => c.result = c.check /\ issued = <<>>]_vars

\* after a move that was commanded, a move to a pose was refused by the
\* safety check and returned its error
C31_Witness ==
    /\ motion.moves = 2
    /\ Len(motion.goals) = 1
    /\ motion.call.made
    /\ IsPose(motion.call.target)
    /\ motion.call.state_res.tag = "ok"
    /\ motion.call.check.tag = "err"
    /\ motion.call.result = motion.call.check

====
